---------------------------- MODULE Spec2Model ----------------------------
(***************************************************************************)
(* Undo/redo action logging for the timeline: pitivi/undo/timeline.py.     *)
(*                                                                         *)
(* The GES timeline (layers, clips, track elements, control sources) is    *)
(* the environment; the TimelineObserver, its trackers and the undoable    *)
(* actions are the program.  GObject signals are synchronous: a mutation   *)
(* of the timeline runs every connected handler before it returns, so each *)
(* operation below is a function from the whole program state (a record   *)
(* w, one field per variable) to the state after the mutation and all its  *)
(* handlers.                                                               *)
(***************************************************************************)
EXTENDS Integers, Sequences, FiniteSets, TLC

(* ------------------------------ bounds --------------------------------- *)
MaxLayers == 1
MaxClips == 1
MaxElems == 3
MaxFx == 1
MaxVal == 1
MaxPrio == 1
MaxTime == 2
MaxLog == 2
MaxHandlers == 2

NoVal == -1
NoLayer == 0
NoClip == 0
SourceAsset == 0

Layers == 1..MaxLayers
NormalClips == 1..MaxClips
TransitionClip == MaxClips + 1
Clips == NormalClips \cup {TransitionClip}
Elems == 1..MaxElems
Assets == 0..MaxFx
Val == 0..MaxVal
Prio == 0..MaxPrio
Times == 1..MaxTime

(* isinstance(clip, GES.TransitionClip) *)
IsTransitionClip(c) == c = TransitionClip

(* ------------------------- child properties ---------------------------- *)
(* pitivi.effects.PROPS_TO_IGNORE, imported at line 25 *)
PROPS_TO_IGNORE == {"ign"}

(* track_element.list_children_properties(): the pspecs of an element *)
list_children_properties ==
    << [owner |-> "fx", name |-> "p", writable |-> TRUE],
       [owner |-> "fx", name |-> "ign", writable |-> TRUE],
       [owner |-> "fx", name |-> "ro", writable |-> FALSE] >>

child_property_name(pspec) == pspec.owner \o "::" \o pspec.name

Pspecs == {list_children_properties[i] : i \in 1..Len(list_children_properties)}
ChildPropNames == {child_property_name(p) : p \in Pspecs}
(* the names _discoverChildProperties puts in a snapshot *)
TrackedNames == {child_property_name(p) : p \in {q \in Pspecs : q.name \notin PROPS_TO_IGNORE}}
(* the one child property a control binding can be set on *)
BoundProp == "fx::p"
(* the child properties the environment changes *)
MutableChildProps == {"fx::p"}

(* ClipPropertyChangeTracker: property_names *)
property_names == <<"start", "duration", "in-point", "priority">>
PropertyNames == {property_names[i] : i \in 1..Len(property_names)}
(* the clip properties the environment changes *)
MutableClipProps == {"start"}

(* isinstance(track_element, GES.BaseEffect) / GES.VideoSource, by asset *)
IsEffectAsset(a) == a # SourceAsset

NoSnap == [n \in TrackedNames |-> NoVal]
NoKeyframes == [t \in Times |-> NoVal]
DefaultProps == [n \in ChildPropNames |-> 0]
DefaultClipProps == [n \in PropertyNames |-> 0]

VARIABLES
    (* GES timeline *)
    tl_layers, priority, clip_layer, clip_props,
    n_elems, el_asset, el_clip, el_track, el_props, el_active,
    el_binding, el_keyframes, commit_requested,
    (* application *)
    dropping_clips,
    (* TimelineObserver and its trackers *)
    observing, _layers_priorities, layer_handlers,
    clip_trackers, clip_property_trackers, clip_child_handlers,
    cba_handlers, deep_notify_handlers, track_handlers,
    _tracked_track_elements, cs_handlers, kf_trackers,
    control_source_keyframe_trackers,
    (* action log *)
    log, pos, running, exc,
    (* history *)
    base, peak, clean, lastOp

wvars == << tl_layers, priority, clip_layer, clip_props,
            n_elems, el_asset, el_clip, el_track, el_props, el_active,
            el_binding, el_keyframes, commit_requested, dropping_clips,
            observing, _layers_priorities, layer_handlers,
            clip_trackers, clip_property_trackers, clip_child_handlers,
            cba_handlers, deep_notify_handlers, track_handlers,
            _tracked_track_elements, cs_handlers, kf_trackers,
            control_source_keyframe_trackers, log, pos, running, exc >>
vars == << wvars, base, peak, clean, lastOp >>

(* the program state as one record *)
W == [ tl_layers |-> tl_layers, priority |-> priority,
       clip_layer |-> clip_layer, clip_props |-> clip_props,
       n_elems |-> n_elems, el_asset |-> el_asset, el_clip |-> el_clip,
       el_track |-> el_track, el_props |-> el_props, el_active |-> el_active,
       el_binding |-> el_binding, el_keyframes |-> el_keyframes,
       commit_requested |-> commit_requested,
       dropping_clips |-> dropping_clips,
       observing |-> observing, _layers_priorities |-> _layers_priorities,
       layer_handlers |-> layer_handlers,
       clip_trackers |-> clip_trackers,
       clip_property_trackers |-> clip_property_trackers,
       clip_child_handlers |-> clip_child_handlers,
       cba_handlers |-> cba_handlers,
       deep_notify_handlers |-> deep_notify_handlers,
       track_handlers |-> track_handlers,
       _tracked_track_elements |-> _tracked_track_elements,
       cs_handlers |-> cs_handlers, kf_trackers |-> kf_trackers,
       control_source_keyframe_trackers |-> control_source_keyframe_trackers,
       log |-> log, pos |-> pos, running |-> running, exc |-> exc,
       raising |-> FALSE ]

SetW(w) ==
    /\ tl_layers' = w.tl_layers /\ priority' = w.priority
    /\ clip_layer' = w.clip_layer /\ clip_props' = w.clip_props
    /\ n_elems' = w.n_elems /\ el_asset' = w.el_asset /\ el_clip' = w.el_clip
    /\ el_track' = w.el_track /\ el_props' = w.el_props
    /\ el_active' = w.el_active /\ el_binding' = w.el_binding
    /\ el_keyframes' = w.el_keyframes
    /\ commit_requested' = w.commit_requested
    /\ dropping_clips' = w.dropping_clips
    /\ observing' = w.observing
    /\ _layers_priorities' = w._layers_priorities
    /\ layer_handlers' = w.layer_handlers
    /\ clip_trackers' = w.clip_trackers
    /\ clip_property_trackers' = w.clip_property_trackers
    /\ clip_child_handlers' = w.clip_child_handlers
    /\ cba_handlers' = w.cba_handlers
    /\ deep_notify_handlers' = w.deep_notify_handlers
    /\ track_handlers' = w.track_handlers
    /\ _tracked_track_elements' = w._tracked_track_elements
    /\ cs_handlers' = w.cs_handlers /\ kf_trackers' = w.kf_trackers
    /\ control_source_keyframe_trackers' = w.control_source_keyframe_trackers
    /\ log' = w.log /\ pos' = w.pos /\ running' = w.running /\ exc' = w.exc

(* clip.get_children(True) *)
Children(w, c) == {e \in 1..w.n_elems : w.el_clip[e] = c}
(* ges_clip.timeline is set: the clip is in a layer of the timeline *)
InTimeline(w, c) == w.clip_layer[c] \in w.tl_layers

Front(s) == SubSeq(s, 1, Len(s) - 1)
Last(s) == s[Len(s)]

(* a Python exception leaves the running handler or method: the statements
   after the raising one are skipped *)
Raise(w) == [w EXCEPT !.raising = TRUE]
(* PyGObject prints an exception that leaves a signal handler and goes on *)
Swallow(w) == [w EXCEPT !.raising = FALSE,
                        !.exc = IF w.raising THEN "handler" ELSE @]

(* ------------------------------ actions -------------------------------- *)
(* UndoableAction.__init__: a new action has been neither done nor undone *)
UndoableAction(kind) == [kind |-> kind, st |-> "pending"]

TrackElementPropertyChanged(track_element, property_name, old_value, new_value) ==
    [kind |-> "TrackElementPropertyChanged", st |-> "pending",
     track_element |-> track_element, property_name |-> property_name,
     old_value |-> old_value, new_value |-> new_value]

TrackElementAdded(w, clip, track_element) ==
    [kind |-> "TrackElementAdded", st |-> "pending", clip |-> clip,
     track_element |-> track_element, asset |-> w.el_asset[track_element],
     track_element_props |-> <<>>]

TrackElementRemoved(w, clip, track_element) ==
    [kind |-> "TrackElementRemoved", st |-> "pending", clip |-> clip,
     track_element |-> track_element, asset |-> w.el_asset[track_element],
     track_element_props |-> <<>>]

ClipPropertyChanged(clip, property_name, old_value, new_value) ==
    [kind |-> "ClipPropertyChanged", st |-> "pending", clip |-> clip,
     property_name |-> property_name,
     old_value |-> old_value, new_value |-> new_value]

ClipAdded(layer, clip) ==
    [kind |-> "ClipAdded", st |-> "pending", layer |-> layer, clip |-> clip]

ClipRemoved(layer, clip) ==
    [kind |-> "ClipRemoved", st |-> "pending", layer |-> layer, clip |-> clip]

LayerAdded(ges_layer) ==
    [kind |-> "LayerAdded", st |-> "pending", ges_layer |-> ges_layer]

LayerRemoved(ges_layer) ==
    [kind |-> "LayerRemoved", st |-> "pending", ges_layer |-> ges_layer]

LayerMoved(ges_layer, old_priority, new_priority) ==
    [kind |-> "LayerMoved", st |-> "pending", ges_layer |-> ges_layer,
     old_priority |-> old_priority, priority |-> new_priority]

ControlSourceValueAdded(track_element, control_source, keyframe, property_name) ==
    [kind |-> "ControlSourceValueAdded", st |-> "pending",
     track_element |-> track_element, control_source |-> control_source,
     keyframe |-> keyframe, property_name |-> property_name]

ControlSourceValueRemoved(track_element, control_source, keyframe, property_name) ==
    [kind |-> "ControlSourceValueRemoved", st |-> "pending",
     track_element |-> track_element, control_source |-> control_source,
     keyframe |-> keyframe, property_name |-> property_name]

ControlSourceKeyframeChanged(control_source, old_snapshot, new_snapshot) ==
    [kind |-> "ControlSourceKeyframeChanged", st |-> "pending",
     control_source |-> control_source,
     old_snapshot |-> old_snapshot, new_snapshot |-> new_snapshot]

(* a faulty ActivePropertyChanged: the new value is stored, not the prior one *)
ActivePropertyChanged_StoringNew(effect_action, active) ==
    [kind |-> "ActivePropertyChanged", st |-> "pending",
     effect_action |-> effect_action, active |-> active]

(* effect_action is the place in the log of the TrackElementAdded action *)
ActivePropertyChanged(effect_action, active) ==
    [kind |-> "ActivePropertyChanged", st |-> "pending",
     effect_action |-> effect_action, active |-> ~active]

(* a faulty push: actions are recorded also while the log replays one *)
push_WhileRunning(w, action) ==
    [w EXCEPT !.log = Append(SubSeq(w.log, 1, w.pos), action),
              !.pos = w.pos + 1]

(* UndoableActionLog.push: nothing is recorded while the log replays an
   action; a new action drops the undone ones *)
push(w, action) ==
    IF w.running THEN w
    ELSE [w EXCEPT !.log = Append(SubSeq(w.log, 1, w.pos), action),
                   !.pos = w.pos + 1]

(* ------------------ TrackElementChildPropertyTracker ------------------- *)
_discoverChildProperties(w, track_element) ==
    [w EXCEPT !.deep_notify_handlers[track_element] = @ + 1,
              !._tracked_track_elements[track_element] =
                  [n \in TrackedNames |-> w.el_props[track_element][n]]]

addTrackElement(w, track_element) ==
    IF w._tracked_track_elements[track_element] # NoSnap THEN w
    ELSE IF ~w.el_track[track_element]
         THEN [w EXCEPT !.track_handlers[track_element] = @ + 1]
         ELSE _discoverChildProperties(w, track_element)

_trackElementTrackSetCb(w, track_element) ==
    LET w1 == _discoverChildProperties(w, track_element)
    IN  [w1 EXCEPT !.track_handlers[track_element] = @ - 1]

(* the snapshot of an element that was never registered is a KeyError *)
getPropChangedFromTrackElement(w, track_element) ==
    IF w._tracked_track_elements[track_element] = NoSnap THEN Raise(w) ELSE w

(* a faulty _propertyChangedCb: the control binding of the property is not
   looked at *)
propertyChangedCb_IgnoringBinding(w, track_element, pspec_name) ==
    IF \/ w._tracked_track_elements[track_element] = NoSnap
       \/ pspec_name \notin TrackedNames
    THEN Raise(w)
    ELSE LET old_value == w._tracked_track_elements[track_element][pspec_name]
             new_value == w.el_props[track_element][pspec_name]
             w1 == [w EXCEPT !._tracked_track_elements[track_element][pspec_name]
                                 = new_value]
         IN  push(w1, TrackElementPropertyChanged(
                          track_element, pspec_name, old_value, new_value))

TrackElementChildPropertyTracker_propertyChangedCb(w, track_element, pspec_name) ==
    IF w.el_binding[track_element] /\ pspec_name = BoundProp THEN w
    ELSE IF \/ w._tracked_track_elements[track_element] = NoSnap
            \/ pspec_name \notin TrackedNames
         THEN Raise(w)
         ELSE LET old_value == w._tracked_track_elements[track_element][pspec_name]
                  new_value == w.el_props[track_element][pspec_name]
                  w1 == [w EXCEPT !._tracked_track_elements[track_element][pspec_name]
                                      = new_value]
              IN  push(w1, TrackElementPropertyChanged(
                               track_element, pspec_name, old_value, new_value))

(* ------------------------ KeyframeChangeTracker ------------------------ *)
_getKeyframeSnapshot(timestamp, value) == <<timestamp, value>>

_takeCurrentSnapshot(w, control_source) == w.el_keyframes[control_source]

(* a new tracker's connectToObject: snapshot and the three subscriptions *)
connectToObject(w, control_source) ==
    [keyframes |-> _takeCurrentSnapshot(w, control_source), attached |-> TRUE]

(* disconnectFromObject drops control_source and the value-changed handler;
   the cache and the value-added/value-removed handlers stay *)
KeyframeChangeTracker_disconnectFromObject(tracker) ==
    [tracker EXCEPT !.attached = FALSE]

_keyframeAddedCb(tracker, timestamp, value) ==
    [tracker EXCEPT !.keyframes[timestamp] = value]

(* a faulty _keyframeRemovedCb: the snapshot of the keyframe stays *)
_keyframeRemovedCb_Keeping(tracker, timestamp) == tracker

_keyframeRemovedCb(tracker, timestamp) ==
    [tracker EXCEPT !.keyframes[timestamp] = NoVal]

(* ---------------------------- TimelineObserver ------------------------- *)
(* a faulty _connect_to_layer: connecting to a layer also records it as added *)
_connect_to_layer_Logging(w, ges_layer) ==
    push([w EXCEPT !._layers_priorities[ges_layer] = w.priority[ges_layer],
                   !.layer_handlers[ges_layer] = @ + 1],
         LayerAdded(ges_layer))

_connect_to_layer(w, ges_layer) ==
    [w EXCEPT !._layers_priorities[ges_layer] = w.priority[ges_layer],
              !.layer_handlers[ges_layer] = @ + 1]

_disconnect_from_layer(w, ges_layer) ==
    IF w._layers_priorities[ges_layer] = NoVal THEN Raise(w)
    ELSE LET w1 == [w EXCEPT !._layers_priorities[ges_layer] = NoVal]
         IN  IF w1.layer_handlers[ges_layer] = 0 THEN Raise(w1)
             ELSE [w1 EXCEPT !.layer_handlers[ges_layer] = @ - 1]

_connectToControlSource(w, track_element, existed) ==
    [w EXCEPT !.cs_handlers[track_element] = @ + 1,
              !.kf_trackers[track_element] =
                  Append(@, connectToObject(w, track_element)),
              !.control_source_keyframe_trackers[track_element] = TRUE]

_disconnectFromControlSource(w, control_source) ==
    LET w1 == IF w.cs_handlers[control_source] = 0 THEN w
              ELSE [w EXCEPT !.cs_handlers[control_source] = @ - 1]
    IN  IF ~w1.control_source_keyframe_trackers[control_source] THEN w1
        ELSE [w1 EXCEPT
                !.control_source_keyframe_trackers[control_source] = FALSE,
                !.kf_trackers[control_source][Len(w.kf_trackers[control_source])] =
                    KeyframeChangeTracker_disconnectFromObject(@)]

_controlBindingAddedCb(w, track_element) ==
    _connectToControlSource(w, track_element, FALSE)

_connectToTrackElement(w, track_element) ==
    LET w1 == IF w.el_binding[track_element]
              THEN _connectToControlSource(w, track_element, TRUE) ELSE w
        w2 == [w1 EXCEPT !.cba_handlers[track_element] = @ + 1]
    IN  IF IsEffectAsset(w.el_asset[track_element])
        THEN addTrackElement(w2, track_element)
        ELSE IF w.el_asset[track_element] = SourceAsset
             THEN addTrackElement(w2, track_element)
             ELSE w2

_disconnectFromTrackElement(w, track_element) ==
    IF w.el_binding[track_element]
    THEN _disconnectFromControlSource(w, track_element) ELSE w

RECURSIVE ConnectChildren(_, _)
ConnectChildren(w, S) ==
    IF S = {} THEN w
    ELSE LET e == CHOOSE x \in S : TRUE
         IN  ConnectChildren(_connectToTrackElement(w, e), S \ {e})

RECURSIVE DisconnectChildren(_, _)
DisconnectChildren(w, S) ==
    IF S = {} THEN w
    ELSE LET e == CHOOSE x \in S : TRUE
         IN  DisconnectChildren(_disconnectFromTrackElement(w, e), S \ {e})

(* ClipPropertyChangeTracker(ges_clip): the snapshot, the notify and commited
   subscriptions, and the observer's last-<property> attributes *)
ClipPropertyChangeTracker(w, ges_clip) ==
    [properties |-> w.clip_props[ges_clip], last |-> w.clip_props[ges_clip]]

_connectToClip(w, ges_clip) ==
    IF ~InTimeline(w, ges_clip) THEN Raise(w)
    ELSE LET w1 == [w EXCEPT
                      !.clip_trackers[ges_clip] =
                          Append(@, ClipPropertyChangeTracker(w, ges_clip)),
                      !.clip_property_trackers[ges_clip] = TRUE,
                      !.clip_child_handlers[ges_clip] = @ + 1]
         IN  ConnectChildren(w1, Children(w, ges_clip))

_disconnectFromClip(w, clip) ==
    IF IsTransitionClip(clip) THEN w
    ELSE LET w1 == DisconnectChildren(w, Children(w, clip))
         IN  IF w1.clip_child_handlers[clip] = 0 THEN Raise(w1)
             ELSE LET w2 == [w1 EXCEPT !.clip_child_handlers[clip] = @ - 1]
                  IN  IF ~w2.clip_property_trackers[clip] THEN Raise(w2)
                      ELSE [w2 EXCEPT !.clip_property_trackers[clip] = FALSE,
                                      !.clip_trackers[clip] = Front(@)]

(* a faulty _clipAddedCb: transition clips are handled like the others *)
_clipAddedCb_AnyClip(w, layer, clip) ==
    LET w1 == _connectToClip(w, clip)
    IN  IF w1.raising THEN w1 ELSE push(w1, ClipAdded(layer, clip))

_clipAddedCb(w, layer, clip) ==
    IF IsTransitionClip(clip) THEN w
    ELSE LET w1 == _connectToClip(w, clip)
         IN  IF w1.raising THEN w1 ELSE push(w1, ClipAdded(layer, clip))

_clipRemovedCb(w, layer, clip) ==
    IF IsTransitionClip(clip) THEN w
    ELSE LET w1 == _disconnectFromClip(w, clip)
         IN  IF w1.raising THEN w1 ELSE push(w1, ClipRemoved(layer, clip))

(* a faulty _clipPropertyChangedCb: changes made during a drag are recorded *)
_clipPropertyChangedCb_IgnoringDrag(w, clip, i, property_name) ==
    LET new_value == w.clip_props[clip][property_name]
        old_value == w.clip_trackers[clip][i].last[property_name]
        w1 == [w EXCEPT !.clip_trackers[clip][i].last[property_name] = new_value]
    IN  push(w1, ClipPropertyChanged(clip, property_name, old_value, new_value))

_clipPropertyChangedCb(w, clip, i, property_name) ==
    IF w.dropping_clips THEN w
    ELSE LET new_value == w.clip_props[clip][property_name]
             old_value == w.clip_trackers[clip][i].last[property_name]
             w1 == [w EXCEPT !.clip_trackers[clip][i].last[property_name] = new_value]
         IN  push(w1, ClipPropertyChanged(clip, property_name, old_value, new_value))

_clipTrackElementAddedCb(w, clip, track_element) ==
    LET w1 == _connectToTrackElement(w, track_element)
    IN  IF IsEffectAsset(w.el_asset[track_element])
        THEN push(w1, TrackElementAdded(w1, clip, track_element))
        ELSE w1

_clipTrackElementRemovedCb(w, clip, track_element) ==
    LET w1 == _disconnectFromTrackElement(w, track_element)
    IN  IF IsEffectAsset(w.el_asset[track_element])
        THEN push(w1, TrackElementRemoved(w1, clip, track_element))
        ELSE w1

_controlSourceKeyFrameAddedCb(w, source, keyframe, track_element, property_name) ==
    push(w, ControlSourceValueAdded(track_element, source, keyframe, property_name))

_controlSourceKeyFrameRemovedCb(w, source, keyframe, track_element, property_name) ==
    push(w, ControlSourceValueRemoved(track_element, source, keyframe, property_name))

_trackElementActiveChangedCb(w, track_element, active, add_effect_action) ==
    push(w, ActivePropertyChanged(add_effect_action, active))

_controlSourceKeyFrameMovedCb(w, control_source, old_snapshot, new_snapshot) ==
    push(w, ControlSourceKeyframeChanged(control_source, old_snapshot, new_snapshot))

(* a faulty _layer_moved_cb: the cached priority is not updated *)
_layer_moved_cb_KeepingCache(w, ges_layer) ==
    IF w._layers_priorities[ges_layer] = NoVal THEN Raise(w)
    ELSE push(w, LayerMoved(ges_layer, w._layers_priorities[ges_layer],
                            w.priority[ges_layer]))

_layer_moved_cb(w, ges_layer) ==
    IF w._layers_priorities[ges_layer] = NoVal THEN Raise(w)
    ELSE LET previous == w._layers_priorities[ges_layer]
             current == w.priority[ges_layer]
             w1 == [w EXCEPT !._layers_priorities[ges_layer] = current]
         IN  push(w1, LayerMoved(ges_layer, previous, current))

_layerAddedCb(w, ges_layer) ==
    push(_connect_to_layer(w, ges_layer), LayerAdded(ges_layer))

_layerRemovedCb(w, ges_layer) ==
    LET w1 == _disconnect_from_layer(w, ges_layer)
    IN  IF w1.raising THEN w1 ELSE push(w1, LayerRemoved(ges_layer))


(* PropertyChangeTracker._propertyChangedCb of tracker i of a clip: a last-value
   cache that reports a change of a tracked property with the old and new value *)
PropertyChangeTracker_propertyChangedCb(w, gobject, i, property_value, property_name) ==
    LET old_value == w.clip_trackers[gobject][i].properties[property_name]
    IN  IF old_value = property_value THEN w
        ELSE LET w1 == _clipPropertyChangedCb(w, gobject, i, property_name)
             IN  [w1 EXCEPT !.clip_trackers[gobject][i].properties[property_name] =
                                property_value]

(* ClipPropertyChangeTracker._timelineCommitedCb of tracker i of a clip *)
RECURSIVE _timelineCommitedCb(_, _, _, _)
_timelineCommitedCb(w, gobject, i, k) ==
    IF k > Len(property_names) THEN w
    ELSE LET property_name == property_names[k]
             property_value == w.clip_props[gobject][property_name]
             old_value == w.clip_trackers[gobject][i].properties[property_name]
             w1 == IF old_value # property_value
                   THEN PropertyChangeTracker_propertyChangedCb(
                            w, gobject, i, property_value, property_name)
                   ELSE w
         IN  _timelineCommitedCb(w1, gobject, i, k + 1)

(* KeyframeChangeTracker._keyframeMovedCb of tracker i of a control source,
   with the observer's keyframe-moved handler it calls *)
_keyframeMovedCb(w, control_source, i, timestamp, value) ==
    LET old_value == w.kf_trackers[control_source][i].keyframes[timestamp]
    IN  IF old_value = NoVal THEN Raise(w)
        ELSE LET old_snapshot == _getKeyframeSnapshot(timestamp, old_value)
                 new_snapshot == _getKeyframeSnapshot(timestamp, value)
                 w1 == [w EXCEPT !.kf_trackers[control_source][i].keyframes[timestamp]
                                     = value]
             IN  _controlSourceKeyFrameMovedCb(w1, control_source,
                                               old_snapshot, new_snapshot)

(* -------------------------- signal emission ---------------------------- *)
(* one run of the handler the observer or a tracker connected to a signal *)
Handle(sig, w) ==
    CASE sig.name = "layer-added" -> _layerAddedCb(w, sig.layer)
      [] sig.name = "layer-removed" -> _layerRemovedCb(w, sig.layer)
      [] sig.name = "clip-added" -> _clipAddedCb(w, sig.layer, sig.clip)
      [] sig.name = "clip-removed" -> _clipRemovedCb(w, sig.layer, sig.clip)
      [] sig.name = "notify::priority" -> _layer_moved_cb(w, sig.layer)
      [] sig.name = "child-added" -> _clipTrackElementAddedCb(w, sig.clip, sig.el)
      [] sig.name = "child-removed" -> _clipTrackElementRemovedCb(w, sig.clip, sig.el)
      [] sig.name = "control-binding-added" -> _controlBindingAddedCb(w, sig.el)
      [] sig.name = "deep-notify" ->
             TrackElementChildPropertyTracker_propertyChangedCb(w, sig.el, sig.prop)
      [] sig.name = "notify::track" -> _trackElementTrackSetCb(w, sig.el)
      [] sig.name = "value-added" ->
             _controlSourceKeyFrameAddedCb(w, sig.el, sig.keyframe, sig.el, BoundProp)
      [] sig.name = "value-removed" ->
             _controlSourceKeyFrameRemovedCb(w, sig.el, sig.keyframe, sig.el, BoundProp)

(* the n handlers connected to a signal run one after the other *)
RECURSIVE Emit(_, _, _)
Emit(n, sig, w) ==
    IF n = 0 THEN w ELSE Emit(n - 1, sig, Swallow(Handle(sig, w)))

(* notify::<property> of a clip reaches every tracker connected to the clip *)
RECURSIVE EmitClipNotify(_, _, _, _)
EmitClipNotify(w, clip, property_name, i) ==
    IF i > Len(w.clip_trackers[clip]) THEN w
    ELSE EmitClipNotify(
             Swallow(PropertyChangeTracker_propertyChangedCb(
                 w, clip, i, w.clip_props[clip][property_name], property_name)),
             clip, property_name, i + 1)

(* the timeline's commited signal reaches every clip tracker *)
RECURSIVE EmitCommitedClip(_, _, _)
EmitCommitedClip(w, clip, i) ==
    IF i > Len(w.clip_trackers[clip]) THEN w
    ELSE EmitCommitedClip(Swallow(_timelineCommitedCb(w, clip, i, 1)), clip, i + 1)

RECURSIVE EmitCommited(_, _)
EmitCommited(w, S) ==
    IF S = {} THEN w
    ELSE LET c == CHOOSE x \in S : TRUE
         IN  EmitCommited(EmitCommitedClip(w, c, 1), S \ {c})

(* value-changed reaches the trackers still attached to the control source *)
RECURSIVE EmitValueChanged(_, _, _, _, _)
EmitValueChanged(w, control_source, timestamp, value, i) ==
    IF i > Len(w.kf_trackers[control_source]) THEN w
    ELSE EmitValueChanged(
             IF w.kf_trackers[control_source][i].attached
             THEN Swallow(_keyframeMovedCb(w, control_source, i, timestamp, value))
             ELSE w,
             control_source, timestamp, value, i + 1)

(* ---------------------- the GES timeline (environment) ----------------- *)
ges_timeline_add_layer(w, l) ==
    IF l \in w.tl_layers THEN w
    ELSE Emit(IF w.observing THEN 1 ELSE 0, [name |-> "layer-added", layer |-> l],
              [w EXCEPT !.tl_layers = @ \cup {l}])

ges_timeline_remove_layer(w, l) ==
    IF l \notin w.tl_layers THEN w
    ELSE Emit(IF w.observing THEN 1 ELSE 0, [name |-> "layer-removed", layer |-> l],
              [w EXCEPT !.tl_layers = @ \ {l}])

ges_layer_set_priority(w, l, p) ==
    Emit(w.layer_handlers[l], [name |-> "notify::priority", layer |-> l],
         [w EXCEPT !.priority[l] = p])

ges_layer_add_clip(w, l, c) ==
    IF w.clip_layer[c] # NoLayer THEN w
    ELSE Emit(w.layer_handlers[l], [name |-> "clip-added", layer |-> l, clip |-> c],
              [w EXCEPT !.clip_layer[c] = l])

ges_layer_remove_clip(w, l, c) ==
    IF w.clip_layer[c] # l THEN w
    ELSE Emit(w.layer_handlers[l], [name |-> "clip-removed", layer |-> l, clip |-> c],
              [w EXCEPT !.clip_layer[c] = NoLayer])

ges_clip_set_property(w, c, property_name, v) ==
    EmitClipNotify([w EXCEPT !.clip_props[c][property_name] = v], c, property_name, 1)

(* clip.add_asset(asset): a new track element, w.n_elems after the call;
   has_track says whether its track is set when child-added is emitted *)
ges_clip_add_asset(w, c, asset, has_track) ==
    LET e == w.n_elems + 1
    IN  Emit(w.clip_child_handlers[c], [name |-> "child-added", clip |-> c, el |-> e],
             [w EXCEPT !.n_elems = e, !.el_asset[e] = asset, !.el_clip[e] = c,
                       !.el_track[e] = has_track /\ InTimeline(w, c)])

(* clip.remove(track_element) *)
ges_container_remove(w, c, e) ==
    IF w.el_clip[e] # c THEN w
    ELSE Emit(w.clip_child_handlers[c], [name |-> "child-removed", clip |-> c, el |-> e],
              [w EXCEPT !.el_clip[e] = NoClip])

set_child_property(w, e, pspec_name, v) ==
    Emit(w.deep_notify_handlers[e], [name |-> "deep-notify", el |-> e, prop |-> pspec_name],
         [w EXCEPT !.el_props[e][pspec_name] = v])

set_control_binding(w, e) ==
    Emit(w.cba_handlers[e], [name |-> "control-binding-added", el |-> e],
         [w EXCEPT !.el_binding[e] = TRUE])

(* the track of an element is set: of the handlers connected to notify::track,
   each one that runs disconnects the one connected last *)
set_track(w, e) ==
    Emit((w.track_handlers[e] + 1) \div 2, [name |-> "notify::track", el |-> e],
         [w EXCEPT !.el_track[e] = TRUE])

(* GstTimedValueControlSource.set *)
control_source_set(w, cs, timestamp, value) ==
    IF w.el_keyframes[cs][timestamp] = NoVal
    THEN LET w1 == Emit(w.cs_handlers[cs],
                        [name |-> "value-added", el |-> cs,
                         keyframe |-> <<timestamp, value>>],
                        [w EXCEPT !.el_keyframes[cs][timestamp] = value])
         IN  [w1 EXCEPT !.kf_trackers[cs] =
                 [k \in 1..Len(@) |-> _keyframeAddedCb(@[k], timestamp, value)]]
    ELSE EmitValueChanged([w EXCEPT !.el_keyframes[cs][timestamp] = value],
                          cs, timestamp, value, 1)

(* GstTimedValueControlSource.unset *)
control_source_unset(w, cs, timestamp) ==
    IF w.el_keyframes[cs][timestamp] = NoVal THEN w
    ELSE LET w1 == Emit(w.cs_handlers[cs],
                        [name |-> "value-removed", el |-> cs,
                         keyframe |-> <<timestamp, w.el_keyframes[cs][timestamp]>>],
                        [w EXCEPT !.el_keyframes[cs][timestamp] = NoVal])
         IN  [w1 EXCEPT !.kf_trackers[cs] =
                 [k \in 1..Len(@) |-> _keyframeRemovedCb(@[k], timestamp)]]

(* pipeline.commit_timeline(): the commit is requested, it completes later *)
commit_timeline(w) == [w EXCEPT !.commit_requested = TRUE]


(* ----------------------- the actions' do and undo ---------------------- *)
(* UndoableAction._done / _undone: the markers of the action at place i *)
_done(w, i) == [w EXCEPT !.log[i].st = "done"]
_undone(w, i) == [w EXCEPT !.log[i].st = "undone"]

(* the (name, value) pairs of the writable child properties not ignored *)
WritablePspecs ==
    SelectSeq(list_children_properties,
              LAMBDA prop : prop.writable /\ prop.name \notin PROPS_TO_IGNORE)

(* a faulty capture: every listed child property, the read-only and the
   ignored ones too *)
CaptureProps_Unfiltered(w, track_element) ==
    [k \in 1..Len(list_children_properties) |->
        << child_property_name(list_children_properties[k]),
           w.el_props[track_element][child_property_name(list_children_properties[k])] >>]

CaptureProps(w, track_element) ==
    [k \in 1..Len(WritablePspecs) |->
        << child_property_name(WritablePspecs[k]),
           w.el_props[track_element][child_property_name(WritablePspecs[k])] >>]

RECURSIVE RestoreProps(_, _, _, _)
RestoreProps(w, track_element, props, k) ==
    IF k > Len(props) THEN w
    ELSE RestoreProps(set_child_property(w, track_element, props[k][1], props[k][2]),
                      track_element, props, k + 1)

TrackElementPropertyChanged_do(w, i) ==
    LET a == w.log[i]
    IN  _done(set_child_property(w, a.track_element, a.property_name, a.new_value), i)

TrackElementPropertyChanged_undo(w, i) ==
    LET a == w.log[i]
    IN  _undone(set_child_property(w, a.track_element, a.property_name, a.old_value), i)

(* do of TrackElementAdded and undo of TrackElementRemoved: a new element
   from the asset, the captured properties set on it *)
Reinstantiate(w, i, has_track) ==
    LET a == w.log[i]
        w1 == ges_clip_add_asset(w, a.clip, a.asset, has_track)
        e == w1.n_elems
        w2 == [w1 EXCEPT !.log[i].track_element = e]
    IN  RestoreProps(w2, e, a.track_element_props, 1)

(* undo of TrackElementAdded and do of TrackElementRemoved: the properties are
   captured, the element removed, the tracker's snapshot looked up *)
CaptureAndRemove(w, i) ==
    LET a == w.log[i]
    IN  IF a.track_element = 0 THEN Raise(w)
        ELSE LET w1 == [w EXCEPT !.log[i].track_element_props =
                                     CaptureProps(w, a.track_element)]
                 w2 == ges_container_remove(w1, a.clip, a.track_element)
                 w3 == getPropChangedFromTrackElement(w2, a.track_element)
             IN  IF w3.raising THEN w3
                 ELSE [w3 EXCEPT !.log[i].track_element = 0]

TrackElementAdded_do(w, i, has_track) == _done(Reinstantiate(w, i, has_track), i)

(* a faulty undo: the properties are captured, the element stays on the clip *)
TrackElementAdded_undo_KeepingElement(w, i) ==
    LET a == w.log[i]
    IN  IF a.track_element = 0 THEN Raise(w)
        ELSE _undone([w EXCEPT !.log[i].track_element_props =
                                   CaptureProps(w, a.track_element)], i)

TrackElementAdded_undo(w, i) ==
    LET w1 == CaptureAndRemove(w, i)
    IN  IF w1.raising THEN w1 ELSE _undone(w1, i)

TrackElementRemoved_do(w, i) ==
    LET w1 == CaptureAndRemove(w, i)
    IN  IF w1.raising THEN w1 ELSE _done(w1, i)

TrackElementRemoved_undo(w, i, has_track) == _undone(Reinstantiate(w, i, has_track), i)

ClipPropertyChanged_do(w, i) ==
    LET a == w.log[i]
    IN  _done(ges_clip_set_property(w, a.clip, a.property_name, a.new_value), i)

ClipPropertyChanged_undo(w, i) ==
    LET a == w.log[i]
    IN  _undone(ges_clip_set_property(w, a.clip, a.property_name, a.old_value), i)

(* layer.get_timeline().get_asset().pipeline.commit_timeline(): get_timeline()
   is None for a layer that is in no timeline *)
LayerCommit(w, layer) ==
    IF layer \notin w.tl_layers THEN Raise(w) ELSE commit_timeline(w)

ClipAdded_do(w, i) ==
    LET a == w.log[i]
        w1 == LayerCommit(ges_layer_add_clip(w, a.layer, a.clip), a.layer)
    IN  IF w1.raising THEN w1 ELSE _done(w1, i)

ClipAdded_undo(w, i) ==
    LET a == w.log[i]
        w1 == LayerCommit(ges_layer_remove_clip(w, a.layer, a.clip), a.layer)
    IN  IF w1.raising THEN w1 ELSE _undone(w1, i)

ClipRemoved_do(w, i) ==
    LET a == w.log[i]
        w1 == LayerCommit(ges_layer_remove_clip(w, a.layer, a.clip), a.layer)
    IN  IF w1.raising THEN w1 ELSE _done(w1, i)

ClipRemoved_undo(w, i) ==
    LET a == w.log[i]
        w1 == LayerCommit(ges_layer_add_clip(w, a.layer, a.clip), a.layer)
    IN  IF w1.raising THEN w1 ELSE _undone(w1, i)

LayerAdded_do(w, i) == ges_timeline_add_layer(w, w.log[i].ges_layer)

LayerAdded_undo(w, i) ==
    commit_timeline(ges_timeline_remove_layer(w, w.log[i].ges_layer))

LayerRemoved_do(w, i) ==
    commit_timeline(ges_timeline_remove_layer(w, w.log[i].ges_layer))

LayerRemoved_undo(w, i) == ges_timeline_add_layer(w, w.log[i].ges_layer)

LayerMoved_do(w, i) ==
    ges_layer_set_priority(w, w.log[i].ges_layer, w.log[i].priority)

LayerMoved_undo(w, i) ==
    ges_layer_set_priority(w, w.log[i].ges_layer, w.log[i].old_priority)

ControlSourceValueAdded_do(w, i) ==
    LET a == w.log[i]
    IN  _done(control_source_set(w, a.control_source, a.keyframe[1], a.keyframe[2]), i)

(* a faulty undo: the action is marked undone, the keyframe stays *)
ControlSourceValueAdded_undo_MarkOnly(w, i) == _undone(w, i)

ControlSourceValueAdded_undo(w, i) ==
    LET a == w.log[i]
    IN  _undone(control_source_unset(w, a.control_source, a.keyframe[1]), i)

ControlSourceValueRemoved_do(w, i) ==
    LET a == w.log[i]
    IN  _undone(control_source_unset(w, a.control_source, a.keyframe[1]), i)

ControlSourceValueRemoved_undo(w, i) ==
    LET a == w.log[i]
    IN  _done(control_source_set(w, a.control_source, a.keyframe[1], a.keyframe[2]), i)

_applySnapshot(w, control_source, snapshot) ==
    control_source_set(w, control_source, snapshot[1], snapshot[2])

ControlSourceKeyframeChanged_do(w, i) ==
    _done(_applySnapshot(w, w.log[i].control_source, w.log[i].new_snapshot), i)

ControlSourceKeyframeChanged_undo(w, i) ==
    _undone(_applySnapshot(w, w.log[i].control_source, w.log[i].old_snapshot), i)

(* effect_action.track_element.active = self.active; self.active = not self.active *)
ActiveToggle(w, i) ==
    LET a == w.log[i]
        track_element == w.log[a.effect_action].track_element
    IN  IF track_element = 0 THEN Raise(w)
        ELSE [w EXCEPT !.el_active[track_element] = a.active,
                       !.log[i].active = ~a.active]

ActivePropertyChanged_do(w, i) ==
    LET w1 == ActiveToggle(w, i) IN IF w1.raising THEN w1 ELSE _done(w1, i)

ActivePropertyChanged_undo(w, i) ==
    LET w1 == ActiveToggle(w, i) IN IF w1.raising THEN w1 ELSE _undone(w1, i)

(* action.do() of the action at place i of the log *)
ActionDo(w, i, has_track) ==
    LET kind == w.log[i].kind
    IN  CASE kind = "TrackElementPropertyChanged" -> TrackElementPropertyChanged_do(w, i)
          [] kind = "TrackElementAdded" -> TrackElementAdded_do(w, i, has_track)
          [] kind = "TrackElementRemoved" -> TrackElementRemoved_do(w, i)
          [] kind = "ClipPropertyChanged" -> ClipPropertyChanged_do(w, i)
          [] kind = "ClipAdded" -> ClipAdded_do(w, i)
          [] kind = "ClipRemoved" -> ClipRemoved_do(w, i)
          [] kind = "LayerAdded" -> LayerAdded_do(w, i)
          [] kind = "LayerRemoved" -> LayerRemoved_do(w, i)
          [] kind = "LayerMoved" -> LayerMoved_do(w, i)
          [] kind = "ControlSourceValueAdded" -> ControlSourceValueAdded_do(w, i)
          [] kind = "ControlSourceValueRemoved" -> ControlSourceValueRemoved_do(w, i)
          [] kind = "ControlSourceKeyframeChanged" -> ControlSourceKeyframeChanged_do(w, i)
          [] kind = "ActivePropertyChanged" -> ActivePropertyChanged_do(w, i)

(* action.undo() of the action at place i of the log *)
ActionUndo(w, i, has_track) ==
    LET kind == w.log[i].kind
    IN  CASE kind = "TrackElementPropertyChanged" -> TrackElementPropertyChanged_undo(w, i)
          [] kind = "TrackElementAdded" -> TrackElementAdded_undo(w, i)
          [] kind = "TrackElementRemoved" -> TrackElementRemoved_undo(w, i, has_track)
          [] kind = "ClipPropertyChanged" -> ClipPropertyChanged_undo(w, i)
          [] kind = "ClipAdded" -> ClipAdded_undo(w, i)
          [] kind = "ClipRemoved" -> ClipRemoved_undo(w, i)
          [] kind = "LayerAdded" -> LayerAdded_undo(w, i)
          [] kind = "LayerRemoved" -> LayerRemoved_undo(w, i)
          [] kind = "LayerMoved" -> LayerMoved_undo(w, i)
          [] kind = "ControlSourceValueAdded" -> ControlSourceValueAdded_undo(w, i)
          [] kind = "ControlSourceValueRemoved" -> ControlSourceValueRemoved_undo(w, i)
          [] kind = "ControlSourceKeyframeChanged" -> ControlSourceKeyframeChanged_undo(w, i)
          [] kind = "ActivePropertyChanged" -> ActivePropertyChanged_undo(w, i)

(* whether do / undo of the action creates a track element *)
DoAllocates(a) == a.kind = "TrackElementAdded"
UndoAllocates(a) == a.kind = "TrackElementRemoved"

(* ------------------------------ action log ----------------------------- *)
(* the log runs an action with its own recording switched off; an exception
   that leaves the action leaves the log's position where it was *)
Replayed(w0, w1, newpos) ==
    IF w1.raising
    THEN [w1 EXCEPT !.running = FALSE, !.raising = FALSE, !.exc = "action"]
    ELSE [w1 EXCEPT !.running = FALSE, !.pos = newpos]

(* UndoableActionLog.undo: the last done action is undone *)
LogUndo(w, has_track) ==
    Replayed(w, ActionUndo([w EXCEPT !.running = TRUE, !.exc = "none"], w.pos, has_track),
             w.pos - 1)

(* UndoableActionLog.redo: the last undone action is done again *)
LogRedo(w, has_track) ==
    Replayed(w, ActionDo([w EXCEPT !.running = TRUE, !.exc = "none"], w.pos + 1, has_track),
             w.pos + 1)


(* TimelineObserver.startObserving *)
RECURSIVE ConnectLayers(_, _)
ConnectLayers(w, S) ==
    IF S = {} THEN w
    ELSE LET l == CHOOSE x \in S : TRUE
         IN  ConnectLayers(_connect_to_layer(w, l), S \ {l})

RECURSIVE ConnectClips(_, _)
ConnectClips(w, S) ==
    IF S = {} THEN w
    ELSE LET c == CHOOSE x \in S : TRUE
         IN  ConnectClips(_connectToClip(w, c), S \ {c})

startObserving(w) ==
    LET w1 == ConnectLayers(w, w.tl_layers)
        w2 == [w1 EXCEPT !.observing = TRUE]
    IN  ConnectClips(w2, {c \in Clips : InTimeline(w, c)})

(* ------------------------- what a user can see ------------------------- *)
(* a track element without its identity: a re-instantiated element is a
   different object from the same asset *)
ElemDesc(w, e) ==
    [asset |-> w.el_asset[e], props |-> w.el_props[e], active |-> w.el_active[e],
     keyframes |-> w.el_keyframes[e]]

ElemBag(w, c) ==
    [d \in {ElemDesc(w, e) : e \in Children(w, c)} |->
        Cardinality({e \in Children(w, c) : ElemDesc(w, e) = d})]

(* the timeline: its layers with their priorities, and the clips in them with
   their properties and track elements *)
View(w) ==
    [layers |-> {<<l, w.priority[l]>> : l \in w.tl_layers},
     clips |-> {[clip |-> c, layer |-> w.clip_layer[c], props |-> w.clip_props[c],
                 elems |-> ElemBag(w, c)] : c \in {x \in NormalClips : InTimeline(w, x)}}]

(* the counters of the model stay within the bounds *)
Bounded(w) ==
    /\ Len(w.log) <= MaxLog
    /\ w.n_elems <= MaxElems
    /\ \A l \in Layers : w.layer_handlers[l] <= MaxHandlers
    /\ \A c \in Clips : /\ Len(w.clip_trackers[c]) <= MaxHandlers
                        /\ w.clip_child_handlers[c] <= MaxHandlers
    /\ \A e \in Elems : /\ w.cba_handlers[e] <= MaxHandlers
                        /\ w.deep_notify_handlers[e] <= MaxHandlers
                        /\ w.track_handlers[e] <= MaxHandlers
                        /\ w.cs_handlers[e] <= MaxHandlers
                        /\ Len(w.kf_trackers[e]) <= MaxHandlers

(* ------------------------------- Init ---------------------------------- *)
(* the observer is constructed; the project is empty, or holds one layer with
   one clip, and on the clip no effect, or one effect, which may have a control
   binding *)
Init ==
    \E clipped \in BOOLEAN, populated \in BOOLEAN, bound \in BOOLEAN :
        /\ bound => populated
        /\ populated => clipped
        /\ tl_layers = IF clipped THEN {1} ELSE {}
        /\ priority = [l \in Layers |-> 0]
        /\ clip_layer = [c \in Clips |-> IF clipped /\ c = 1 THEN 1 ELSE NoLayer]
        /\ clip_props = [c \in Clips |-> DefaultClipProps]
        /\ n_elems = IF populated THEN 1 ELSE 0
        /\ el_asset = [e \in Elems |-> IF populated /\ e = 1 THEN 1 ELSE SourceAsset]
        /\ el_clip = [e \in Elems |-> IF populated /\ e = 1 THEN 1 ELSE NoClip]
        /\ el_track = [e \in Elems |-> populated /\ e = 1]
        /\ el_props = [e \in Elems |->
                          IF populated /\ e = 1
                          THEN [DefaultProps EXCEPT ![BoundProp] = MaxVal]
                          ELSE DefaultProps]
        /\ el_active = [e \in Elems |-> TRUE]
        /\ el_binding = [e \in Elems |-> bound /\ e = 1]
        /\ el_keyframes = [e \in Elems |-> NoKeyframes]
        /\ commit_requested = FALSE
        /\ dropping_clips = FALSE
        /\ observing = FALSE
        /\ _layers_priorities = [l \in Layers |-> NoVal]
        /\ layer_handlers = [l \in Layers |-> 0]
        /\ clip_trackers = [c \in Clips |-> <<>>]
        /\ clip_property_trackers = [c \in Clips |-> FALSE]
        /\ clip_child_handlers = [c \in Clips |-> 0]
        /\ cba_handlers = [e \in Elems |-> 0]
        /\ deep_notify_handlers = [e \in Elems |-> 0]
        /\ track_handlers = [e \in Elems |-> 0]
        /\ _tracked_track_elements = [e \in Elems |-> NoSnap]
        /\ cs_handlers = [e \in Elems |-> 0]
        /\ kf_trackers = [e \in Elems |-> <<>>]
        /\ control_source_keyframe_trackers = [e \in Elems |-> FALSE]
        /\ log = <<>>
        /\ pos = 0
        /\ running = FALSE
        /\ exc = "none"
        /\ base = [layers |-> {}, clips |-> {}]
        /\ peak = [layers |-> {}, clips |-> {}]
        /\ clean = TRUE
        /\ lastOp = [op |-> "Init", arg |-> 0, pushed |-> 0]

(* ------------------------------ actions -------------------------------- *)
(* a mutation made by the user or the application: w1 is the state after it
   and its handlers; logged says the mutation is one the observer records *)
Mutation(op, arg, w1, logged) ==
    /\ observing
    /\ Bounded(w1)
    /\ SetW(w1)
    /\ peak' = IF w1.log # log \/ View(w1) # View(W) THEN View(w1) ELSE peak
    /\ clean' = (clean /\ (logged => w1.log # log) /\ (~logged => View(w1) = View(W)))
    /\ lastOp' = [op |-> op, arg |-> arg, pushed |-> w1.pos - pos]
    /\ UNCHANGED base

Fresh == [W EXCEPT !.exc = "none"]

StartObserving ==
    /\ ~observing
    /\ SetW(startObserving(Fresh))
    /\ base' = View(W)
    /\ peak' = View(W)
    /\ lastOp' = [op |-> "StartObserving", arg |-> 0, pushed |-> Len(log')]
    /\ UNCHANGED clean

AddLayer ==
    \E l \in Layers \ tl_layers :
        Mutation("AddLayer", l, ges_timeline_add_layer(Fresh, l), TRUE)

RemoveLayer ==
    \E l \in tl_layers :
        Mutation("RemoveLayer", l, ges_timeline_remove_layer(Fresh, l), TRUE)

MoveLayer ==
    \E l \in tl_layers : \E p \in Prio \ {priority[l]} :
        Mutation("MoveLayer", l, ges_layer_set_priority(Fresh, l, p), TRUE)

AddClip ==
    \E l \in tl_layers, c \in NormalClips :
        /\ clip_layer[c] = NoLayer
        /\ Mutation("AddClip", c, ges_layer_add_clip(Fresh, l, c), TRUE)

RemoveClip ==
    \E c \in NormalClips :
        /\ InTimeline(W, c)
        /\ Mutation("RemoveClip", c, ges_layer_remove_clip(Fresh, clip_layer[c], c), TRUE)

(* the timeline creates and drops transition clips by itself *)
AddTransitionClip ==
    \E l \in tl_layers :
        /\ clip_layer[TransitionClip] = NoLayer
        /\ Mutation("AddTransitionClip", TransitionClip,
                    ges_layer_add_clip(Fresh, l, TransitionClip), FALSE)

RemoveTransitionClip ==
    /\ InTimeline(W, TransitionClip)
    /\ Mutation("RemoveTransitionClip", TransitionClip,
                ges_layer_remove_clip(Fresh, clip_layer[TransitionClip], TransitionClip),
                FALSE)

SetClipProp ==
    \E c \in NormalClips, n \in MutableClipProps : \E v \in Val \ {clip_props[c][n]} :
        /\ InTimeline(W, c)
        /\ Mutation("SetClipProp", c, ges_clip_set_property(Fresh, c, n, v), ~dropping_clips)

AddElement ==
    \E c \in NormalClips, asset \in 1..MaxFx, has_track \in BOOLEAN :
        /\ InTimeline(W, c)
        /\ n_elems < MaxElems
        /\ Mutation("AddElement", n_elems + 1, ges_clip_add_asset(Fresh, c, asset, has_track), TRUE)

RemoveElement ==
    \E e \in 1..n_elems :
        /\ el_clip[e] # NoClip
        /\ InTimeline(W, el_clip[e])
        /\ Mutation("RemoveElement", e, ges_container_remove(Fresh, el_clip[e], e),
                    IsEffectAsset(el_asset[e]))

SetChildProp ==
    \E e \in 1..n_elems, n \in MutableChildProps : \E v \in Val \ {el_props[e][n]} :
        /\ el_clip[e] # NoClip
        /\ InTimeline(W, el_clip[e])
        /\ Mutation("SetChildProp", e, set_child_property(Fresh, e, n, v),
                    /\ n \in TrackedNames
                    /\ ~(el_binding[e] /\ n = BoundProp)
                    /\ _tracked_track_elements[e] # NoSnap)

(* a child property that is on the ignore list changes: deep-notify is
   emitted for it as for any other child property *)
SetIgnoredChildProp ==
    \E e \in 1..n_elems, n \in ChildPropNames \ TrackedNames :
        \E v \in Val \ {el_props[e][n]} :
            /\ el_clip[e] # NoClip
            /\ InTimeline(W, el_clip[e])
            /\ Mutation("SetIgnoredChildProp", e, set_child_property(Fresh, e, n, v), FALSE)

SetBinding ==
    \E e \in 1..n_elems :
        /\ el_clip[e] # NoClip
        /\ InTimeline(W, el_clip[e])
        /\ ~el_binding[e]
        /\ Mutation("SetBinding", e, set_control_binding(Fresh, e), FALSE)

SetKeyframe ==
    \E e \in 1..n_elems, t \in Times : \E v \in Val \ {el_keyframes[e][t]} :
        /\ el_binding[e]
        /\ el_clip[e] # NoClip
        /\ InTimeline(W, el_clip[e])
        /\ Mutation("SetKeyframe", e, control_source_set(Fresh, e, t, v), TRUE)

UnsetKeyframe ==
    \E e \in 1..n_elems, t \in Times :
        /\ el_binding[e]
        /\ el_keyframes[e][t] # NoVal
        /\ el_clip[e] # NoClip
        /\ InTimeline(W, el_clip[e])
        /\ Mutation("UnsetKeyframe", e, control_source_unset(Fresh, e, t), TRUE)

(* the timeline puts a new element in a track after child-added was emitted *)
AttachTrack ==
    \E e \in 1..n_elems :
        /\ el_clip[e] # NoClip
        /\ InTimeline(W, el_clip[e])
        /\ ~el_track[e]
        /\ Mutation("AttachTrack", e, set_track(Fresh, e), FALSE)

(* an effect is (de)activated: the handler is connected with the
   TrackElementAdded action of the effect *)
ToggleActive ==
    \E e \in 1..n_elems, i \in 1..pos :
        /\ el_clip[e] # NoClip
        /\ InTimeline(W, el_clip[e])
        /\ log[i].kind = "TrackElementAdded"
        /\ log[i].track_element = e
        /\ Mutation("ToggleActive", e,
                    _trackElementActiveChangedCb(
                        [Fresh EXCEPT !.el_active[e] = ~el_active[e]],
                        e, ~el_active[e], i),
                    TRUE)

(* a requested commit completes: the timeline emits commited *)
Commited ==
    /\ commit_requested
    /\ Mutation("Commited", 0,
                EmitCommited([Fresh EXCEPT !.commit_requested = FALSE], Clips), FALSE)

(* a drag of clips starts or ends *)
SetDropping ==
    Mutation("SetDropping", 0, [Fresh EXCEPT !.dropping_clips = ~dropping_clips], FALSE)

(* a tracked clip property changes and no notification reaches the tracker
   before the next commit: the change ClipPropertyChangeTracker finds by
   comparing its snapshot in _timelineCommitedCb *)
SetClipPropUnnotified ==
    \E c \in NormalClips, n \in MutableClipProps : \E v \in Val \ {clip_props[c][n]} :
        /\ InTimeline(W, c)
        /\ Mutation("SetClipPropUnnotified", c, [Fresh EXCEPT !.clip_props[c][n] = v], TRUE)

(* the application commits the timeline, as the log does when a transaction
   is committed *)
CommitTimeline ==
    /\ ~commit_requested
    /\ Mutation("CommitTimeline", 0, commit_timeline(Fresh), FALSE)

(* the log undoes / redoes one action *)
Replay(op, w1) ==
    /\ Bounded(w1)
    /\ SetW(w1)
    /\ lastOp' = [op |-> op, arg |-> 0, pushed |-> Len(w1.log) - Len(log)]
    /\ clean' = (clean /\ w1.exc # "action")
    /\ UNCHANGED << base, peak >>

Undo ==
    \E has_track \in BOOLEAN :
        /\ pos > 0
        /\ UndoAllocates(log[pos]) => n_elems < MaxElems
        /\ ~UndoAllocates(log[pos]) => has_track
        /\ Replay("Undo", LogUndo(W, has_track))

Redo ==
    \E has_track \in BOOLEAN :
        /\ pos < Len(log)
        /\ DoAllocates(log[pos + 1]) => n_elems < MaxElems
        /\ ~DoAllocates(log[pos + 1]) => has_track
        /\ Replay("Redo", LogRedo(W, has_track))

(* track elements, child properties, control sources and the log *)
Next ==
    \/ StartObserving
    \/ AddElement \/ RemoveElement \/ SetChildProp
    \/ SetBinding
    \/ AttachTrack
    \/ Undo \/ Redo

Spec == Init /\ [][Next]_vars

(* control sources, keyframes and the log *)
NextKeyframes ==
    \/ StartObserving
    \/ RemoveElement
    \/ SetChildProp
    \/ SetBinding \/ SetKeyframe \/ UnsetKeyframe
    \/ Undo \/ Redo

SpecKeyframes == Init /\ [][NextKeyframes]_vars

(* layers, clips, clip properties and the log *)
NextTimeline ==
    \/ StartObserving
    \/ AddLayer \/ RemoveLayer \/ MoveLayer
    \/ AddClip \/ RemoveClip \/ SetClipProp
    \/ AddTransitionClip \/ RemoveTransitionClip
    \/ Undo \/ Redo

SpecTimeline == Init /\ [][NextTimeline]_vars

(* every mutation the observer records, without replay *)
NextActions ==
    \/ StartObserving
    \/ AddLayer \/ RemoveLayer \/ MoveLayer
    \/ AddClip \/ RemoveClip \/ SetClipProp
    \/ AddElement \/ RemoveElement \/ SetChildProp
    \/ SetBinding \/ SetKeyframe \/ UnsetKeyframe
    \/ AttachTrack \/ ToggleActive

SpecActions == Init /\ [][NextActions]_vars

(* clip properties, drags, commits and the log *)
NextClipProps ==
    \/ StartObserving
    \/ MoveLayer
    \/ SetClipProp \/ SetClipPropUnnotified
    \/ SetDropping
    \/ CommitTimeline \/ Commited
    \/ Undo \/ Redo

SpecClipProps == Init /\ [][NextClipProps]_vars

(* effects added before they have a track, clips removed and added again *)
NextDeferred ==
    \/ StartObserving
    \/ AddElement \/ AttachTrack \/ SetChildProp
    \/ AddClip \/ RemoveClip
    \/ Undo \/ Redo

SpecDeferred == Init /\ [][NextDeferred]_vars

(* effects added, activated and deactivated, and the log *)
NextActive ==
    \/ StartObserving
    \/ AddElement \/ AttachTrack
    \/ ToggleActive
    \/ Undo \/ Redo

SpecActive == Init /\ [][NextActive]_vars

(* child properties of effects, the ignored ones included, and the log *)
NextIgnored ==
    \/ StartObserving
    \/ AddElement \/ AttachTrack
    \/ SetChildProp \/ SetIgnoredChildProp
    \/ Undo \/ Redo

SpecIgnored == Init /\ [][NextIgnored]_vars

(* ------------------------------- claims -------------------------------- *)
(* the names of the child properties an add/remove action has to capture *)
CapturedNames ==
    {child_property_name(p) : p \in {q \in Pspecs : q.writable /\ q.name \notin PROPS_TO_IGNORE}}

(* C1: when every recorded action has been undone, in reverse order, the
   timeline is again as it was when observation started (layers, clips, track
   elements per clip, child-property values, keyframes) *)
C1_UndoAllRestoresTimeline ==
    (observing /\ clean /\ pos = 0 /\ exc # "action") => View(W) = base

(* C2: when every recorded action is done again after undoing, the timeline is
   as it was after the last mutation, the child properties of a
   re-instantiated effect included *)
C2_RedoAllRestoresTimeline ==
    (observing /\ clean /\ pos = Len(log) /\ exc # "action") => View(W) = peak

(* one application of the action at the top of the log, outside the log *)
Apply(w, dir, has_track) ==
    LET w0 == [w EXCEPT !.running = TRUE, !.raising = FALSE]
    IN  IF dir = "do" THEN ActionDo(w0, w.pos, has_track)
        ELSE ActionUndo(w0, w.pos, has_track)

(* the track elements do(); undo(); do() of the action just constructed makes
   are within the bound *)
C3_Room ==
    n_elems + (IF DoAllocates(log[pos]) THEN 2
               ELSE IF UndoAllocates(log[pos]) THEN 1 ELSE 0) <= MaxElems

C4_Markers ==
    /\ (lastOp.op = "Undo" /\ exc # "action") => log[pos + 1].st = "undone"
    /\ (lastOp.op = "Redo" /\ exc # "action") => log[pos].st = "done"

(* C5: undo of TrackElementAdded takes the element off the clip and captures
   the writable, non-ignored child-property values it had just before; the
   following redo puts an element of the same asset on the same clip with every
   captured property set to the captured value *)
C5_UndoStep ==
    /\ lastOp'.op = "Undo" /\ pos > 0
    /\ log[pos].kind = "TrackElementAdded" /\ log[pos].track_element # 0

C5_UndoPost ==
    LET a == log[pos]
        e == a.track_element
        captured == log'[pos].track_element_props
    IN  /\ el_clip'[e] # a.clip
        /\ {captured[k][1] : k \in 1..Len(captured)} = CapturedNames
        /\ Len(captured) = Cardinality(CapturedNames)
        /\ \A k \in 1..Len(captured) : captured[k][2] = el_props[e][captured[k][1]]

C5_RedoStep ==
    /\ lastOp'.op = "Redo" /\ pos < Len(log)
    /\ log[pos + 1].kind = "TrackElementAdded"

C5_RedoPost ==
    LET a == log[pos + 1]
        e == n_elems'
    IN  /\ n_elems' = n_elems + 1
        /\ log'[pos + 1].track_element = e
        /\ el_asset'[e] = a.asset
        /\ el_clip'[e] = a.clip
        /\ \A k \in 1..Len(a.track_element_props) :
               el_props'[e][a.track_element_props[k][1]] = a.track_element_props[k][2]

C5_AddedEffectUndoRedo ==
    [][(C5_UndoStep => C5_UndoPost) /\ (C5_RedoStep => C5_RedoPost)]_vars

C5_Witness ==
    /\ lastOp.op = "Redo" /\ pos > 0
    /\ log[pos].kind = "TrackElementAdded"
    /\ log[pos].track_element # 0
    /\ el_clip[log[pos].track_element] = log[pos].clip
    /\ el_props[log[pos].track_element][BoundProp] = MaxVal

(* C6: undo of a TrackElementRemoved action the observer pushed puts an element
   of the same asset on the same clip, with the writable, non-ignored
   child-property values the removed element had *)
C6_UndoStep ==
    /\ lastOp'.op = "Undo" /\ pos > 0
    /\ log[pos].kind = "TrackElementRemoved" /\ log[pos].st = "pending"

C6_UndoPost ==
    LET a == log[pos]
        e == n_elems'
    IN  /\ n_elems' = n_elems + 1
        /\ el_asset'[e] = a.asset
        /\ el_clip'[e] = a.clip
        /\ \A n \in CapturedNames : el_props'[e][n] = el_props[a.track_element][n]

C6_RemovedEffectUndo == [][C6_UndoStep => C6_UndoPost]_vars

(* C7: a change of a child property that has a control binding, on a tracked
   element, pushes no action *)
C7_AnimatedNotLogged ==
    (lastOp.op = "SetChildProp" /\ el_binding[lastOp.arg]) => lastOp.pushed = 0

C7_Witness ==
    /\ lastOp.op = "SetChildProp" /\ el_binding[lastOp.arg]
    /\ deep_notify_handlers[lastOp.arg] > 0
    /\ _tracked_track_elements[lastOp.arg] # NoSnap
    /\ Len(log) > 0

(* C8: a transition clip added to or removed from a layer pushes no action *)
C8_TransitionsNotLogged ==
    (lastOp.op \in {"AddTransitionClip", "RemoveTransitionClip"}) =>
        lastOp.pushed = 0

C8_Witness ==
    /\ lastOp.op = "RemoveTransitionClip"
    /\ \E l \in Layers : layer_handlers[l] > 0
    /\ Len(log) > 0

(* C9: the snapshot of every registered track element equals the element's
   live child-property values *)
C9_SnapshotIsLive ==
    \A e \in 1..n_elems :
        _tracked_track_elements[e] # NoSnap =>
            \A n \in TrackedNames : _tracked_track_elements[e][n] = el_props[e][n]

(* no tracker entry and no subscription is left on a track element *)
ElementTornDown(e) ==
    /\ cba_handlers[e] = 0 /\ deep_notify_handlers[e] = 0 /\ track_handlers[e] = 0
    /\ _tracked_track_elements[e] = NoSnap
    /\ cs_handlers[e] = 0 /\ kf_trackers[e] = <<>>
    /\ ~control_source_keyframe_trackers[e]

ClipTornDown(c) ==
    /\ clip_trackers[c] = <<>> /\ ~clip_property_trackers[c]
    /\ clip_child_handlers[c] = 0
    /\ \A e \in Children(W, c) : ElementTornDown(e)

LayerTornDown(l) ==
    /\ layer_handlers[l] = 0 /\ _layers_priorities[l] = NoVal
    /\ \A c \in Clips : clip_layer[c] = l => ClipTornDown(c)

(* C10: once the observer has handled the removal of a track element, a clip
   or a layer, nothing of the observer is left on it or on its descendants *)
C10_TeardownComplete ==
    /\ lastOp.op = "RemoveElement" => ElementTornDown(lastOp.arg)
    /\ lastOp.op = "RemoveClip" => ClipTornDown(lastOp.arg)
    /\ lastOp.op = "RemoveLayer" => LayerTornDown(lastOp.arg)

(* C11: a keyframe tracker that was detached from its control source holds no
   keyframe snapshot: the cache is cleared and value-added / value-removed of
   the source no longer fill it *)
C11_DetachedTrackerIsEmpty ==
    \A e \in Elems : \A k \in 1..Len(kf_trackers[e]) :
        ~kf_trackers[e][k].attached => kf_trackers[e][k].keyframes = NoKeyframes

(* a teardown run on the state w neither raises nor changes anything *)
TeardownIsNoOp(w, w2) == ~w2.raising /\ w2 = w

(* C12: tearing down once more what the observer has just torn down (a clip, a
   layer, the control source of a removed element) does not raise and leaves
   the observer's state as it is *)
C12_SecondTeardownIsNoOp ==
    /\ lastOp.op = "RemoveClip" /\ exc = "none" =>
           TeardownIsNoOp(W, _disconnectFromClip(W, lastOp.arg))
    /\ lastOp.op = "RemoveLayer" /\ exc = "none" =>
           TeardownIsNoOp(W, _disconnect_from_layer(W, lastOp.arg))
    /\ lastOp.op = "RemoveElement" /\ exc = "none" =>
           TeardownIsNoOp(W, _disconnectFromTrackElement(W, lastOp.arg))


(* C13: startObserving on a timeline that already holds layers, clips, track
   elements and control bindings attaches to them and pushes nothing: the log
   is empty right after it *)
C13_StartObservingPushesNothing ==
    lastOp.op = "StartObserving" =>
        /\ log = <<>> /\ pos = 0
        /\ \A l \in tl_layers : layer_handlers[l] > 0
        /\ \A c \in NormalClips : InTimeline(W, c) => clip_property_trackers[c]

C13_Witness ==
    /\ lastOp.op = "StartObserving" /\ log = <<>>
    /\ tl_layers # {}
    /\ \E e \in Elems : /\ el_binding[e] /\ control_source_keyframe_trackers[e]
                        /\ _tracked_track_elements[e] # NoSnap
                        /\ clip_property_trackers[el_clip[e]]


(* a clip property whose current value a tracker of the clip has not seen yet:
   its change waits for the commited signal *)
Undetected(w) ==
    \E c \in NormalClips : \E i \in 1..Len(w.clip_trackers[c]) : \E n \in PropertyNames :
        w.clip_trackers[c][i].properties[n] # w.clip_props[c][n]

(* C14: actions are pushed in the order of the mutations: the action a
   mutation pushes describes that mutation, and it is pushed when no earlier
   change of a clip property still waits for the commit that will push its
   action *)
C14_PushedInMutationOrder ==
    [][ (lastOp'.op \in {"MoveLayer", "SetClipProp"} /\ lastOp'.pushed > 0) =>
            /\ ~Undetected(W)
            /\ lastOp'.op = "MoveLayer" =>
                   log'[pos'].kind = "LayerMoved" /\ log'[pos'].ges_layer = lastOp'.arg
            /\ lastOp'.op = "SetClipProp" =>
                   log'[pos'].kind = "ClipPropertyChanged" /\ log'[pos'].clip = lastOp'.arg
      ]_vars


(* the action on top of the log is the property-change action of clip c for
   the change of property n from a to b *)
IsClipPropertyChange(l, p, c, n, a, b) ==
    /\ p > 0
    /\ l[p].kind = "ClipPropertyChanged" /\ l[p].clip = c /\ l[p].property_name = n
    /\ l[p].old_value = a /\ l[p].new_value = b

(* C15: one change of a tracked clip property from a to b outside a drag
   pushes exactly one property-change action with old = a and new = b, the
   commit that follows pushes no second one, and undoing the action sets the
   property back to a *)
C15_OneActionPerChange ==
    [][ /\ (lastOp'.op = "SetClipProp" /\ ~dropping_clips /\ ~Undetected(W)) =>
               /\ lastOp'.pushed = 1
               /\ \E n \in MutableClipProps :
                      IsClipPropertyChange(log', pos', lastOp'.arg, n,
                                           clip_props[lastOp'.arg][n],
                                           clip_props'[lastOp'.arg][n])
        /\ (lastOp'.op = "Commited" /\ ~Undetected(W)) => lastOp'.pushed = 0
        /\ (lastOp'.op = "Undo" /\ exc' = "none" /\ pos > 0) =>
               (log[pos].kind = "ClipPropertyChanged" =>
                    clip_props'[log[pos].clip][log[pos].property_name] = log[pos].old_value)
      ]_vars


(* the keyframes of control source cs at the timestamps other than t *)
OtherKeyframes(kfs, cs, t) == [t2 \in Times \ {t} |-> kfs[cs][t2]]

(* C16: adding the keyframe (t, v) to the control source of a bound property
   pushes one ControlSourceValueAdded action for (t, v); undoing that action
   leaves no keyframe at t, redoing it puts (t, v) back, and both steps leave
   the other keyframes of the source as they were *)
C16_KeyframeAddedUndoRedo ==
    [][ /\ (lastOp'.op = "SetKeyframe" /\ \E t \in Times :
                el_keyframes[lastOp'.arg][t] = NoVal /\ el_keyframes'[lastOp'.arg][t] # NoVal) =>
               /\ lastOp'.pushed = 1
               /\ log'[pos'].kind = "ControlSourceValueAdded"
               /\ log'[pos'].control_source = lastOp'.arg
               /\ el_keyframes[lastOp'.arg][log'[pos'].keyframe[1]] = NoVal
               /\ el_keyframes'[lastOp'.arg][log'[pos'].keyframe[1]] = log'[pos'].keyframe[2]
        /\ (lastOp'.op = "Undo" /\ pos > 0) =>
               (log[pos].kind = "ControlSourceValueAdded" =>
                    LET a == log[pos]
                    IN  /\ el_keyframes'[a.control_source][a.keyframe[1]] = NoVal
                        /\ OtherKeyframes(el_keyframes', a.control_source, a.keyframe[1])
                               = OtherKeyframes(el_keyframes, a.control_source, a.keyframe[1]))
        /\ (lastOp'.op = "Redo" /\ pos < Len(log)) =>
               (log[pos + 1].kind = "ControlSourceValueAdded" =>
                    LET a == log[pos + 1]
                    IN  /\ el_keyframes'[a.control_source][a.keyframe[1]] = a.keyframe[2]
                        /\ OtherKeyframes(el_keyframes', a.control_source, a.keyframe[1])
                               = OtherKeyframes(el_keyframes, a.control_source, a.keyframe[1]))
      ]_vars

C16_Witness ==
    /\ lastOp.op = "Redo" /\ pos > 0
    /\ log[pos].kind = "ControlSourceValueAdded" /\ log[pos].st = "done"
    /\ el_keyframes[log[pos].control_source][log[pos].keyframe[1]] = log[pos].keyframe[2]
    /\ \E t \in Times \ {log[pos].keyframe[1]} :
           el_keyframes[log[pos].control_source][t] # NoVal


(* the action a step of the log applies: Undo the one below the position,
   Redo the one above it *)
Replaying == IF lastOp'.op = "Undo" THEN log[pos] ELSE log[pos + 1]

(* C17: every application of a LayerAdded or LayerRemoved action, do and undo,
   changes the layer set of the timeline and requests a commit of the
   timeline; every application of a LayerMoved action writes the priority of
   its layer, leaves the layer set alone and requests no commit *)
C17_LayerActionsAndCommits ==
    [][ ((lastOp'.op = "Undo" /\ pos > 0) \/ (lastOp'.op = "Redo" /\ pos < Len(log))) =>
            /\ Replaying.kind \in {"LayerAdded", "LayerRemoved"} =>
                   /\ tl_layers' # tl_layers
                   /\ commit_requested'
            /\ Replaying.kind = "LayerMoved" =>
                   /\ tl_layers' = tl_layers
                   /\ commit_requested' = commit_requested
                   /\ priority'[Replaying.ges_layer] =
                          IF lastOp'.op = "Undo" THEN Replaying.old_priority
                          ELSE Replaying.priority
      ]_vars


(* C18: while dropping_clips is set no change of a tracked clip property pushes
   an action, neither when it is notified nor when the commit finds it;
   outside a drag every change the tracker reports pushes exactly one
   property-change action whose old value is the last value kept on the
   tracker and whose new value is the clip's value *)
C18_DragSuppression ==
    [][ /\ (lastOp'.op \in {"SetClipProp", "Commited"} /\ dropping_clips) =>
               log' = log /\ pos' = pos
        /\ (lastOp'.op = "SetClipProp" /\ ~dropping_clips) =>
               LET c == lastOp'.arg
                   i == Len(clip_trackers[c])
               IN  \A n \in MutableClipProps :
                       (i > 0 /\ clip_trackers[c][i].properties[n] # clip_props'[c][n]) =>
                           /\ lastOp'.pushed = 1
                           /\ IsClipPropertyChange(log', pos', c, n,
                                                   clip_trackers[c][i].last[n],
                                                   clip_props'[c][n])
      ]_vars

C18_Witness ==
    /\ lastOp.op = "SetClipProp" /\ lastOp.pushed = 0 /\ dropping_clips
    /\ pos > 0 /\ log[pos].kind = "ClipPropertyChanged"
    /\ clip_props[lastOp.arg][log[pos].property_name] # log[pos].new_value


(* C19: an application of an action that fails leaves the timeline as it was
   before the application; in particular, when TrackElementAdded.undo or
   TrackElementRemoved.do fails because the element has no child-property
   snapshot, the element is still on its clip *)
C19_NoPartialApply ==
    [][ (lastOp'.op \in {"Undo", "Redo"} /\ exc' = "action") =>
            /\ View(W)' = View(W)
            /\ el_clip' = el_clip
      ]_vars


(* C20: while the log replays an action, the notifications the replay causes
   add nothing to the log: an undo or redo step leaves the number and the
   order of the recorded actions as they were *)
C20_NoPushDuringReplay ==
    [][ lastOp'.op \in {"Undo", "Redo"} =>
            /\ Len(log') = Len(log)
            /\ \A i \in 1..Len(log) : log'[i].kind = log[i].kind
            /\ pos' \in {pos - 1, pos, pos + 1}
      ]_vars

(* a clip addition has been undone: the observer handled clip-removed during
   the replay and the action is still in the log, above the position *)
C20_Witness ==
    /\ lastOp.op = "Undo" /\ exc = "none"
    /\ pos < Len(log) /\ log[pos + 1].kind = "ClipAdded"
    /\ ~InTimeline(W, log[pos + 1].clip)
    /\ ~clip_property_trackers[log[pos + 1].clip]


(* C27: a ClipPropertyChanged action the observer pushes carries as old value
   the value the clip property had just before the change that is pushed: the
   live value before a notified change, the value the tracker last saw before
   a change found at commit; the observer's last value does not lag behind *)
C27_OldValueIsPrevious ==
    [][ (lastOp'.op \in {"SetClipProp", "Commited"} /\ lastOp'.pushed > 0) =>
            \A k \in (pos + 1)..pos' :
                log'[k].kind = "ClipPropertyChanged" =>
                    LET c == log'[k].clip
                        n == log'[k].property_name
                    IN  log'[k].old_value =
                            IF lastOp'.op = "SetClipProp" THEN clip_props[c][n]
                            ELSE clip_trackers[c][Len(clip_trackers[c])].properties[n]
      ]_vars


(* the cached priority of every layer the observer is connected to is the
   layer's priority *)
LayerCacheIsLive(w) ==
    \A l \in Layers : w.layer_handlers[l] > 0 => w._layers_priorities[l] = w.priority[l]

(* C23: between handlers the cached priority of every connected layer equals
   its live priority, after undo and redo of LayerMoved actions too, and a
   LayerMoved action that is pushed carries the priority before the change as
   old and the priority after it as new *)
C23_LayerPriorityCache ==
    [][ /\ LayerCacheIsLive(W)'
        /\ (lastOp'.op = "MoveLayer" /\ lastOp'.pushed > 0) =>
               /\ lastOp'.pushed = 1
               /\ log'[pos'].kind = "LayerMoved"
               /\ log'[pos'].ges_layer = lastOp'.arg
               /\ log'[pos'].old_priority = priority[lastOp'.arg]
               /\ log'[pos'].priority = priority'[lastOp'.arg]
      ]_vars

C23_Witness ==
    /\ lastOp.op = "Undo" /\ exc = "none"
    /\ pos < Len(log) /\ log[pos + 1].kind = "LayerMoved"
    /\ layer_handlers[log[pos + 1].ges_layer] > 0
    /\ priority[log[pos + 1].ges_layer] = log[pos + 1].old_priority
    /\ _layers_priorities[log[pos + 1].ges_layer] = log[pos + 1].old_priority
    /\ log[pos + 1].old_priority # log[pos + 1].priority


(* C22: a track element registered while it has no track has no snapshot and
   no deep-notify subscription until its track is set; when the track is set
   discovery runs exactly once and no notify::track subscription remains,
   however often addTrackElement was called before; afterwards one change of a
   tracked child property that is not animated pushes exactly one action *)
C22_DeferredRegistration ==
    [][ /\ \A e \in Elems :
               (el_clip'[e] # NoClip /\ ~el_track'[e]) =>
                   (_tracked_track_elements'[e] = NoSnap /\ deep_notify_handlers'[e] = 0)
        /\ (lastOp'.op = "AttachTrack" /\ track_handlers[lastOp'.arg] > 0) =>
               /\ _tracked_track_elements'[lastOp'.arg] # NoSnap
               /\ deep_notify_handlers'[lastOp'.arg] = deep_notify_handlers[lastOp'.arg] + 1
               /\ track_handlers'[lastOp'.arg] = 0
        /\ (lastOp'.op = "SetChildProp" /\ _tracked_track_elements[lastOp'.arg] # NoSnap) =>
               \A n \in TrackedNames :
                   (el_props'[lastOp'.arg][n] # el_props[lastOp'.arg][n]
                    /\ ~(el_binding[lastOp'.arg] /\ n = BoundProp)) => lastOp'.pushed = 1
      ]_vars


(* the element an ActivePropertyChanged action writes to: the track element of
   its effect action *)
ActiveTarget(l, a) == l[a.effect_action].track_element

(* C24: an ActivePropertyChanged action built for a toggle to b stores the
   prior value, not b; every application writes the stored value to the
   element and flips the stored value, so the log's undo, do, undo, ... write
   not b, b, not b, ..., the first undo after the toggle flips the element's
   flag back, and two do calls in a row write two different values *)
C24_ActiveToggles ==
    [][ /\ (lastOp'.op = "ToggleActive" /\ lastOp'.pushed = 1) =>
               /\ log'[pos'].kind = "ActivePropertyChanged"
               /\ log'[pos'].active = ~el_active'[lastOp'.arg]
               /\ LET w1 == Apply(W', "do", TRUE)
                      w2 == Apply(w1, "do", TRUE)
                  IN  w1.el_active[lastOp'.arg] # w2.el_active[lastOp'.arg]
        /\ (lastOp'.op = "Undo" /\ pos > 0 /\ exc' = "none") =>
               (log[pos].kind = "ActivePropertyChanged" =>
                    /\ el_active'[ActiveTarget(log, log[pos])] = log[pos].active
                    /\ log'[pos].active = ~log[pos].active
                    /\ log[pos].st = "pending" =>
                           el_active'[ActiveTarget(log, log[pos])]
                               = ~el_active[ActiveTarget(log, log[pos])])
        /\ (lastOp'.op = "Redo" /\ pos < Len(log) /\ exc' = "none") =>
               (log[pos + 1].kind = "ActivePropertyChanged" =>
                    /\ el_active'[ActiveTarget(log, log[pos + 1])] = log[pos + 1].active
                    /\ log'[pos + 1].active = ~log[pos + 1].active)
      ]_vars

C24_Witness ==
    /\ lastOp.op = "Redo" /\ exc = "none" /\ pos > 0
    /\ log[pos].kind = "ActivePropertyChanged" /\ log[pos].st = "done"
    /\ el_active[ActiveTarget(log, log[pos])] = ~log[pos].active


(* every tracker attached to a control source holds the keyframes of the
   source: the same timestamps, each with the current value *)
SnapshotIsCurrent(w) ==
    \A e \in Elems : \A k \in 1..Len(w.kf_trackers[e]) :
        w.kf_trackers[e][k].attached => w.kf_trackers[e][k].keyframes = w.el_keyframes[e]

(* C25: while a KeyframeChangeTracker is attached, its snapshot has exactly the
   keyframes of the control source, each with its current value, after
   additions, removals, value changes, undo and redo; a value change reports
   the pair before the change as old snapshot and the pair after it as new *)
C25_KeyframeSnapshot ==
    [][ /\ SnapshotIsCurrent(W)'
        /\ (lastOp'.op = "SetKeyframe" /\ lastOp'.pushed > 0) =>
               (log'[pos'].kind = "ControlSourceKeyframeChanged" =>
                    LET a == log'[pos']
                        t == a.new_snapshot[1]
                    IN  /\ lastOp'.pushed = 1
                        /\ a.control_source = lastOp'.arg
                        /\ a.old_snapshot = <<t, el_keyframes[lastOp'.arg][t]>>
                        /\ a.new_snapshot = <<t, el_keyframes'[lastOp'.arg][t]>>
                        /\ el_keyframes[lastOp'.arg][t] # NoVal
                        /\ el_keyframes'[lastOp'.arg][t] # el_keyframes[lastOp'.arg][t])
      ]_vars

C25_Witness ==
    /\ lastOp.op = "Undo" /\ exc = "none"
    /\ pos < Len(log) /\ log[pos + 1].kind = "ControlSourceKeyframeChanged"
    /\ LET cs == log[pos + 1].control_source
           t == log[pos + 1].old_snapshot[1]
       IN  /\ Len(kf_trackers[cs]) > 0 /\ kf_trackers[cs][1].attached
           /\ el_keyframes[cs][t] = log[pos + 1].old_snapshot[2]
           /\ kf_trackers[cs][1].keyframes[t] = log[pos + 1].old_snapshot[2]


(* C26: a change notification for a child property that is on the ignore list,
   on an element that has a snapshot and no control binding on that property,
   pushes no action, raises nothing in the handler and leaves the snapshot of
   the element as it was *)
C26_IgnoredPropertyChange ==
    [][ (/\ lastOp'.op = "SetIgnoredChildProp"
         /\ _tracked_track_elements[lastOp'.arg] # NoSnap
         /\ deep_notify_handlers[lastOp'.arg] > 0) =>
            /\ log' = log /\ pos' = pos
            /\ _tracked_track_elements' = _tracked_track_elements
            /\ exc' # "handler"
      ]_vars


(* C21: after clips are added, removed and added again, by the user or by undo
   and redo, and after control bindings are added, every track element carries
   the observer's control-binding-added handler at most once and every control
   source its value-added / value-removed handlers at most once *)
C21_HandlersAtMostOnce ==
    \A e \in Elems : cba_handlers[e] <= 1 /\ cs_handlers[e] <= 1


============================================================================
